---- MODULE Spec2Model ----
(***************************************************************************)
(* Tweequick: hazard-aware route filtering (LamdaFunctions/4-polyline.py)  *)
(* and MET/NLP risk fusion (LamdaFunctions/3-metData.py).                  *)
(*                                                                         *)
(* Units.  Scores and urgencies are integers in tenths (8.0 is 80), so     *)
(* round(x, 1) yields an integer.  Distances and radii are metres.  The    *)
(* weather factor is kept in tenths (1.8 is 18).                           *)
(*                                                                         *)
(* Geometry.  Route points and hazard centres lie on one meridian and a    *)
(* position is the arc length in metres from a reference latitude.  With   *)
(* equal longitudes haversine_km has a = sin(dphi/2)^2 and returns         *)
(* R * |dphi|, the difference of the two arc lengths.                      *)
(***************************************************************************)
EXTENDS Integers, Sequences, FiniteSets, TLC

VARIABLES
    risk,               \* last call of _compute_final_risk: inputs and result
    hit,                \* last call of route_intersects_hazard
    risk_assessments,   \* table risk_assessments, oldest row first
    conn,               \* 4-polyline.py module-level connection
    event,              \* request last handled by the route handler
    upstream,           \* what geocoding and routing answered to it
    resp,               \* its response
    call,               \* last call of one of the other helper functions
    scoring,            \* request last handled by the scoring handler
    invocations         \* invocations served by one container, in order

vars ==
    <<risk, hit, risk_assessments, conn, event, upstream, resp, call, scoring,
      invocations>>

None == "None"

\* A Python value that is a number or None: Num(80) is 8.0, NoneV is None.
Num(n) == [t |-> "num", v |-> n]
NoneV == [t |-> "none", v |-> 0]
\* A Python str value; v is 0 so that the empty text is falsy like 0.
Str(s) == [t |-> "str", v |-> 0, s |-> s]

\* bool(x): None, 0 and "" are falsy
Truthy(x) ==
    CASE x.t = "none" -> FALSE
      [] x.t = "num" -> x.v # 0
      [] x.t = "str" -> x.s # ""

\* ------------------------------------------------------------------ bounds
MaxOver == 5        \* urgencies range over -MaxOver .. 100 + MaxOver tenths
MaxPoints == 2      \* points per list handed to route_intersects_hazard
MaxHz == 2          \* hazards per list handed to route_intersects_hazard
MaxRows == 6        \* rows in risk_assessments
MaxRoutes == 2      \* candidates returned by the routing provider
MaxInvocations == 3 \* invocations served by one container
MaxWarnings == 2    \* entries of a warning results list

\* --------------------------------------------------------------- helpers
Max2(a, b) == IF a >= b THEN a ELSE b
Min2(a, b) == IF a <= b THEN a ELSE b
Abs(x) == IF x < 0 THEN 0 - x ELSE x

\* str.lower() on the level names that occur in the model
Lower(s) ==
    CASE s = "Low" -> "low"
      [] s = "Moderate" -> "moderate"
      [] s = "High" -> "high"
      [] s = "HIGH" -> "high"
      [] s = "Critical" -> "critical"
      [] s = "Storm" -> "storm"
      [] s = "RAIN" -> "rain"
      [] s = "RED" -> "red"
      [] s = "Amber" -> "amber"
      [] s = "Orange" -> "orange"
      [] s = "VERY HIGH" -> "very high"
      [] s = "Medium" -> "medium"
      [] s = "CRITICAL" -> "critical"
      [] s = "Heavy Rain" -> "heavy rain"
      [] s = "FOG" -> "fog"
      [] s = "Clear" -> "clear"
      [] OTHER -> s

\* str.strip() on the strings that occur in the model
Strip(s) ==
    CASE s = " high " -> "high"
      [] s = " rain " -> "rain"
      [] s = " " -> ""
      [] s = " Orange " -> "Orange"
      [] s = " severe " -> "severe"
      [] s = " 4 " -> "4"
      [] s = "haze " -> "haze"
      [] OTHER -> s

\* ========================================================= 3-metData.py
\* round(x, 1) for x = v / 100 >= 0, result in tenths.  Python rounds the
\* exact value of the double; v / 100 is a tie only when v % 10 = 5, and on
\* the inputs admitted by FloatExact a tie is a multiple of 0.25, which is
\* an exact double, so the tie goes to the even digit.
Round1(v) ==
    LET q == v \div 10
        r == v % 10
    IN  IF r < 5 THEN q
        ELSE IF r > 5 THEN q + 1
        ELSE IF q % 2 = 0 THEN q ELSE q + 1

ClampUrgencyUpperOnly(u) ==
    LET f == IF u.t = "none" \/ u.v = 0 THEN 0 ELSE u.v
    IN  Min2(100, f)

\* max(0.0, min(10.0, float(nlp_urgency_score or 0.0))) in tenths
ClampUrgency(u) ==
    LET f == IF u.t = "none" \/ u.v = 0 THEN 0 ELSE u.v
    IN  Max2(0, Min2(100, f))

ClassifyExclusive(final_score) ==
    IF final_score < 30 THEN <<"Low", "green">>
    ELSE IF final_score < 60 THEN <<"Moderate", "yellow">>
    ELSE IF final_score < 80 THEN <<"High", "orange">>
    ELSE <<"Critical", "red">>

\* final_score <= 3.0 / 6.0 / 8.0 ladder
Classify(final_score) ==
    IF final_score <= 30 THEN <<"Low", "green">>
    ELSE IF final_score <= 60 THEN <<"Moderate", "yellow">>
    ELSE IF final_score <= 80 THEN <<"High", "orange">>
    ELSE <<"Critical", "red">>

FuseUrgencyOnly(nlp, met_norm) == 5 * nlp

\* nlp * 0.5 + met_norm * 0.5 in hundredths
Fuse(nlp, met_norm) == 5 * nlp + 5 * met_norm

ComputeFinalRisk(nlp_urgency_score, met_level) ==
    LET nlp == ClampUrgency(nlp_urgency_score)
        met_norm == Max2(0, Min2(100, met_level * 25))
        final_score == Round1(Fuse(nlp, met_norm))
        cls == Classify(final_score)
    IN  [final_score |-> final_score, risk_level |-> cls[1], color |-> cls[2]]

\* Inputs on which the float arithmetic of _compute_final_risk is the exact
\* decimal arithmetic: the sum is no tie, or it is a multiple of 0.25.
FloatExact(u, m) ==
    LET c == Max2(0, Min2(100, IF u.t = "none" THEN 0 ELSE u.v))
    IN  (c + m) % 2 = 0 \/ c % 5 = 0

SeverityLevels == 0..4
Urgencies == {Num(n) : n \in (0 - MaxOver)..(100 + MaxOver)} \cup {NoneV}

\* Urgencies that are text: float("") is never evaluated because "" or 0.0
\* is 0.0, float("high") and float("8,5") raise ValueError.
UrgencyTexts == {Str(""), Str("high"), Str("8,5")}

\* float(nlp_urgency_score or 0.0) raises
FloatRaises(u) == u.t = "str" /\ u.s # ""

\* int(sev) on text: the decimal integers among the texts of the model;
\* int() accepts surrounding whitespace, int("3.5") raises ValueError
IntTexts == {"3", " 4 ", "7", "-2"}
IntOfText(t) ==
    CASE t = "3" -> 3
      [] t = " 4 " -> 4
      [] t = "7" -> 7
      [] t = "-2" -> 0 - 2
      [] OTHER -> 0

SeverityNameLevelNoWatch(name) ==
    IF name \in {"red", "emergency", "severe"} THEN 4
    ELSE IF name \in {"orange", "warning"} THEN 3
    ELSE IF name \in {"amber"} THEN 2
    ELSE IF name \in {"yellow", "advisory", "info", "information"} THEN 1
    ELSE 0

\* the name ladder of _severity_to_level
SeverityNameLevel(name) ==
    IF name \in {"red", "emergency", "severe"} THEN 4
    ELSE IF name \in {"orange", "warning"} THEN 3
    ELSE IF name \in {"amber", "watch"} THEN 2
    ELSE IF name \in {"yellow", "advisory", "info", "information"} THEN 1
    ELSE 0

\* _severity_to_level
SeverityToLevel(sev) ==
    IF sev.t = "none" THEN 0
    ELSE IF sev.t = "num" THEN Max2(0, Min2(4, sev.v))
    ELSE IF sev.s \in IntTexts THEN Max2(0, Min2(4, IntOfText(sev.s)))
    ELSE SeverityNameLevel(Lower(Strip(sev.s)))

\* r.get(k): None when the key is missing
GetV(r, k) == IF k \in DOMAIN r THEN r[k] ELSE NoneV

\* An entry of the results list that is no dict (a str, a number, None)
NotADict == [notdict |-> TRUE]
IsDict(r) == "notdict" \notin DOMAIN r

SeverityOfFirstField(r) == GetV(r, "severity")

\* r.get("severity") or r.get("level") or r.get("severity_level")
SeverityOf(r) ==
    IF Truthy(GetV(r, "severity")) THEN GetV(r, "severity")
    ELSE IF Truthy(GetV(r, "level")) THEN GetV(r, "level")
    ELSE GetV(r, "severity_level")

\* _max_severity_level: the loop from entry i on with max_lv so far; r.get
\* on an entry that is no dict raises AttributeError.
RECURSIVE MaxSeverityFrom(_, _, _)
MaxSeverityFrom(results, i, max_lv) ==
    IF i > Len(results) THEN [raised |-> FALSE, level |-> max_lv]
    ELSE IF ~IsDict(results[i]) THEN [raised |-> TRUE, level |-> 0]
    ELSE LET lv == SeverityToLevel(SeverityOf(results[i]))
         IN  MaxSeverityFrom(results, i + 1, IF lv > max_lv THEN lv ELSE max_lv)

\* A Python list value
ListV(items) == [t |-> "list", items |-> items]

\* for r in results or []: results is a list or None
MaxSeverityLevel(results) ==
    IF results.t = "none" THEN [raised |-> FALSE, level |-> 0]
    ELSE MaxSeverityFrom(results.items, 1, 0)

RecommendationForLevelNoLower(level) ==
    LET lvl == IF level = None THEN "" ELSE level
    IN  IF lvl = "critical" THEN "Danger: Avoid travel in affected areas; move to higher ground and follow official instructions."
        ELSE IF lvl = "high" THEN "High risk: Monitor official warnings, prepare evacuation plan, avoid low-lying areas."
        ELSE IF lvl = "moderate" THEN "Moderate risk: Stay alert, check local advisories, avoid flood-prone roads."
        ELSE "Low risk: No immediate action needed; stay informed of updates."

\* _recommendation_for_level
RecommendationForLevel(level) ==
    LET lvl == Lower(IF level = None THEN "" ELSE level)
    IN  IF lvl = "critical" THEN "Danger: Avoid travel in affected areas; move to higher ground and follow official instructions."
        ELSE IF lvl = "high" THEN "High risk: Monitor official warnings, prepare evacuation plan, avoid low-lying areas."
        ELSE IF lvl = "moderate" THEN "Moderate risk: Stay alert, check local advisories, avoid flood-prone roads."
        ELSE "Low risk: No immediate action needed; stay informed of updates."

InsertRiskAssessmentUnclamped(table, district, latitude, longitude, final_score, risk_level) ==
    LET rec == RecommendationForLevel(risk_level)
        rid == Len(table) + 1
    IN  Append(table, [id |-> rid, district |-> district,
                       latitude |-> latitude, longitude |-> longitude,
                       final_score |-> final_score, risk_level |-> risk_level,
                       recommendation |-> rec, calculated_at |-> rid])

\* db_insert_risk_assessment: the row appended to the table.  id is the
\* table's serial key and calculated_at its default timestamp, a logical
\* clock here.
InsertRiskAssessment(table, district, latitude, longitude, final_score, risk_level) ==
    LET score == Max2(10, Min2(100, final_score))
        rec == RecommendationForLevel(risk_level)
        rid == Len(table) + 1
    IN  Append(table, [id |-> rid, district |-> district,
                       latitude |-> latitude, longitude |-> longitude,
                       final_score |-> score, risk_level |-> risk_level,
                       recommendation |-> rec, calculated_at |-> rid])

\* _level_name
LevelName(level) ==
    CASE level = 1 -> "Advisory"
      [] level = 2 -> "Watch"
      [] level = 3 -> "Warning"
      [] level = 4 -> "Emergency"
      [] OTHER -> "None"

\* float(body.get("lat")) under try/except: a number stays, None and text
\* that is no number give None
ParseCoord(x) == IF x.t = "num" THEN x ELSE NoneV

\* The town db_find_location returns, as _row_to_loc_dict_from_named maps it
TownRow == [locationid |-> "LOC:1", state_name |-> "Selangor",
            latitude |-> 30, longitude |-> 1015]

NonEmptyResults(r) == r.t = "list" /\ Len(r.items) > 0

FetchMetWarningsRainFirst(rains, rain) ==
    IF NonEmptyResults(rain)
    THEN [results |-> rain, category |-> "RAIN", trace |-> <<"fetch_RAIN">>]
    ELSE IF NonEmptyResults(rains)
    THEN [results |-> rains, category |-> "RAINS", trace |-> <<"fetch_RAIN", "fetch_RAINS">>]
    ELSE [results |-> ListV(<<>>), category |-> None,
          trace |-> <<"fetch_RAIN", "fetch_RAINS">>]

\* fetch_met_warnings_for_location: RAINS, then RAIN, the first answer with
\* results; rains and rain are the result lists of the two answers, NoneV
\* when the request failed.  trace lists the requests made.
FetchMetWarnings(rains, rain) ==
    IF NonEmptyResults(rains)
    THEN [results |-> rains, category |-> "RAINS", trace |-> <<"fetch_RAINS">>]
    ELSE IF NonEmptyResults(rain)
    THEN [results |-> rain, category |-> "RAIN", trace |-> <<"fetch_RAINS", "fetch_RAIN">>]
    ELSE [results |-> ListV(<<>>), category |-> None,
          trace |-> <<"fetch_RAINS", "fetch_RAIN">>]

MissingLocationNoCoordAtAll(city, lat, lon) ==
    (city = None \/ city = "") /\ (lat.t = "none" /\ lon.t = "none")

\* not city and (lat is None or lon is None)
MissingLocation(city, lat, lon) ==
    (city = None \/ city = "") /\ (lat.t = "none" \/ lon.t = "none")

ScoreError(code, err) == [statusCode |-> code, body |-> [error |-> err]]

Handled(response, table, trace) == [resp |-> response, table |-> table, trace |-> trace]

\* lambda_handler of 3-metData.py.  ev holds the request fields, env what
\* the environment and the collaborators answer, table the risk_assessments
\* table; the result carries the response, the table afterwards and the
\* collaborators used, in order.  calculated_at of the response is left out.
ScoreHandlerResult(ev, env, table) ==
    LET city == ev.city
        lat == ParseCoord(ev.lat)
        lon == ParseCoord(ev.lon)
        nlp_urgency == IF Truthy(ev.nlp) THEN ev.nlp ELSE ev.analysis
    IN  IF MissingLocation(city, lat, lon)
        THEN Handled(ScoreError(400, "missing-location"), table, <<>>)
        ELSE IF ~env.token
        THEN Handled(ScoreError(500, "missing-token"), table, <<"token">>)
        ELSE IF ~env.db
        THEN Handled(ScoreError(500, "database-not-configured"), table,
                     <<"token", "db_conn">>)
        ELSE IF env.find \in {"none", "fails"}
        THEN Handled(ScoreError(404, "location-not-found"), table,
                     <<"token", "db_conn", "find_location">>)
        ELSE IF env.find = "noid"
        THEN Handled(ScoreError(500, "no-location-id"), table,
                     <<"token", "db_conn", "find_location">>)
        ELSE LET data == FetchMetWarnings(env.rains, env.rain)
                 met == MaxSeverityLevel(data.results)
                 tr == <<"token", "db_conn", "find_location">> \o data.trace
             IN  IF met.raised \/ FloatRaises(nlp_urgency)
                 THEN Handled(ScoreError(500, "internal-error"), table, tr)
                 ELSE LET r == ComputeFinalRisk(nlp_urgency, met.level)
                          out == [city |-> city,
                                  state |-> TownRow.state_name,
                                  met |-> [category |-> data.category,
                                           warning_count |-> Len(data.results.items),
                                           max_severity_level |-> met.level,
                                           max_severity_name |-> LevelName(met.level)],
                                  nlp |-> [urgency_score |->
                                              IF Truthy(nlp_urgency) THEN nlp_urgency.v ELSE 0],
                                  risk |-> r]
                      IN  IF env.insert_ok
                          THEN LET saved == InsertRiskAssessment(table, TownRow.state_name,
                                                TownRow.latitude, TownRow.longitude,
                                                r.final_score, r.risk_level)
                               IN  Handled([statusCode |-> 200,
                                            body |-> [assessment_id |-> saved[Len(saved)].id,
                                                      recommendation |->
                                                          RecommendationForLevel(r.risk_level)]
                                                     @@ out],
                                           saved, tr \o <<"insert">>)
                          ELSE Handled([statusCode |-> 200, body |-> out], table,
                                       tr \o <<"insert">>)

\* ========================================================= 4-polyline.py
RADIUS_LOW_M == 1500
RADIUS_MEDIUM_M == 3000
RADIUS_HIGH_M == 6000
RADIUS_CRITICAL_M == 10000
HazardLimit == 5

HaversineKmUnscaled(p, q) == Abs(p - q) \div 1000

\* haversine_km(...) * 1000 between two positions on the meridian
HaversineM(p, q) == Abs(p - q)

\* fetch_hazards: the HazardLimit newest rows, newest first
RowToHazard(row) ==
    [id |-> row.id, district |-> row.district, lat |-> row.latitude,
     lng |-> row.longitude, final_score |-> row.final_score,
     risk_level |-> row.risk_level, recommendation |-> row.recommendation,
     calculated_at |-> row.calculated_at]

FetchHazards(table) ==
    LET n == Min2(HazardLimit, Len(table))
    IN  [i \in 1..n |-> RowToHazard(table[Len(table) + 1 - i])]

WeatherScaleNoStrip(weather) ==
    IF weather = None \/ weather = "" THEN 10
    ELSE LET w == Lower(weather)
         IN  IF w \in {"storm", "thunderstorm", "heavy rain", "tropical storm"} THEN 18
             ELSE IF w \in {"rain", "fog", "haze", "drizzle"} THEN 13
             ELSE 10

\* weather_scale, in tenths
WeatherScale(weather) ==
    IF weather = None \/ weather = "" THEN 10
    ELSE LET w == Lower(Strip(weather))
         IN  IF w \in {"storm", "thunderstorm", "heavy rain", "tropical storm"} THEN 18
             ELSE IF w \in {"rain", "fog", "haze", "drizzle"} THEN 13
             ELSE 10

HazardRadiusFromLevelNoLower(level) ==
    IF level = None THEN RADIUS_LOW_M
    ELSE LET l == Strip(level)
         IN  IF l \in {"critical", "very high", "severe"} THEN RADIUS_CRITICAL_M
             ELSE IF l \in {"high"} THEN RADIUS_HIGH_M
             ELSE IF l \in {"medium", "moderate"} THEN RADIUS_MEDIUM_M
             ELSE RADIUS_LOW_M

\* hazard_radius_from_level; None stands for any non-string
HazardRadiusFromLevel(level) ==
    IF level = None THEN RADIUS_LOW_M
    ELSE LET l == Lower(Strip(level))
         IN  IF l \in {"critical", "very high", "severe"} THEN RADIUS_CRITICAL_M
             ELSE IF l \in {"high"} THEN RADIUS_HIGH_M
             ELSE IF l \in {"medium", "moderate"} THEN RADIUS_MEDIUM_M
             ELSE RADIUS_LOW_M

HazardRadiusFromScoreTenScale(score) ==
    IF score >= 80 THEN RADIUS_CRITICAL_M
    ELSE IF score >= 60 THEN RADIUS_HIGH_M
    ELSE IF score >= 40 THEN RADIUS_MEDIUM_M
    ELSE RADIUS_LOW_M

\* hazard_radius_from_score; the score is in tenths, the thresholds are
\* 80, 60 and 40
HazardRadiusFromScore(score) ==
    IF score >= 800 THEN RADIUS_CRITICAL_M
    ELSE IF score >= 600 THEN RADIUS_HIGH_M
    ELSE IF score >= 400 THEN RADIUS_MEDIUM_M
    ELSE RADIUS_LOW_M

\* float(score) on text: "85" is 85.0; float("abc"), float("") and
\* float(None) raise and the except branch returns the Low radius
FloatTexts == {"85"}
FloatOfText(t) == IF t = "85" THEN 850 ELSE 0

HazardRadiusFromScoreValue(score) ==
    IF score.t = "num" THEN HazardRadiusFromScore(score.v)
    ELSE IF score.t = "str" /\ score.s \in FloatTexts
         THEN HazardRadiusFromScore(FloatOfText(score.s))
    ELSE RADIUS_LOW_M

\* int(round(x)) for x = n / 10 >= 0
RoundInt(n) ==
    LET q == n \div 10
        r == n % 10
    IN  IF r < 5 THEN q
        ELSE IF r > 5 THEN q + 1
        ELSE IF q % 2 = 0 THEN q ELSE q + 1

\* A dict key that is missing or holds None is a field outside the record's
\* domain; the code treats the two alike ("k in hz and hz[k] is not None",
\* hz.get(k)).
Has(hz, k) == k \in DOMAIN hz
Get(hz, k) == IF k \in DOMAIN hz THEN hz[k] ELSE None

AnnotateOneScoreFirst(hz, scale) ==
    LET base_r == IF Has(hz, "final_score") THEN HazardRadiusFromScore(hz.final_score)
                  ELSE IF Has(hz, "risk_level") THEN HazardRadiusFromLevel(hz.risk_level)
                  ELSE RADIUS_LOW_M
    IN  [radius_m |-> RoundInt(base_r * scale)] @@ hz

AnnotateOneAccumulating(hz, scale) ==
    LET base_r == IF Has(hz, "radius_m") THEN hz.radius_m
                  ELSE IF Has(hz, "risk_level") THEN HazardRadiusFromLevel(hz.risk_level)
                  ELSE IF Has(hz, "final_score") THEN HazardRadiusFromScore(hz.final_score)
                  ELSE RADIUS_LOW_M
    IN  [radius_m |-> RoundInt(base_r * scale)] @@ hz

AnnotateOneDivided(hz, scale) ==
    LET base_r == IF Has(hz, "risk_level") THEN HazardRadiusFromLevel(hz.risk_level)
                  ELSE IF Has(hz, "final_score") THEN HazardRadiusFromScore(hz.final_score)
                  ELSE RADIUS_LOW_M
    IN  [radius_m |-> RoundInt((base_r * 100) \div scale)] @@ hz

AnnotateOne(hz, scale) ==
    LET base_r == IF Has(hz, "risk_level") THEN HazardRadiusFromLevel(hz.risk_level)
                  ELSE IF Has(hz, "final_score") THEN HazardRadiusFromScore(hz.final_score)
                  ELSE RADIUS_LOW_M
    IN  [radius_m |-> RoundInt(base_r * scale)] @@ hz

\* annotate_hazards_with_radius
AnnotateHazardsWithRadius(hazards, weather) ==
    LET scale == WeatherScale(weather)
    IN  [i \in 1..Len(hazards) |-> AnnotateOne(hazards[i], scale)]

HazardsAfterAnnotateInPlace(hazards, weather) ==
    AnnotateHazardsWithRadius(hazards, weather)

\* The list passed to annotate_hazards_with_radius as the caller sees it
\* after the call: radius_m is assigned on hz2 = dict(hz), a copy, and the
\* list itself is only iterated.
HazardsAfterAnnotate(hazards, weather) == hazards

\* hz.get("radius_m") or hazard_radius_from_level(hz.get("risk_level")):
\* a radius_m of 0 is falsy and gives way to the level's radius
EffectiveRadius(hz) ==
    IF Has(hz, "radius_m") /\ hz.radius_m # 0 THEN hz.radius_m
    ELSE HazardRadiusFromLevel(Get(hz, "risk_level"))

PointInside(p, hz) == HaversineM(p, hz.lat) < EffectiveRadius(hz)

RouteIntersectsFirstHazardOnly(points, hazards) ==
    \E i \in 1..Len(points) : \E j \in 1..Min2(1, Len(hazards)) :
        PointInside(points[i], hazards[j])

\* route_intersects_hazard
RouteIntersectsHazard(points, hazards) ==
    \E i \in 1..Len(points) : \E j \in 1..Len(hazards) :
        PointInside(points[i], hazards[j])

\* polyline.decode on the encoded paths of the model.  With a Low hazard at
\* 0 (1500 m, 1950 m in rain, 2700 m in a storm) and a Critical hazard at
\* 30000 (10000 m, 13000 m, 18000 m) the paths touch the boundaries.
Decode(enc) ==
    CASE enc = "pA" -> <<1500, 12000>>
      [] enc = "pB" -> <<1499, 50000>>
      [] enc = "pC" -> <<0 - 5000, 12000>>
      [] enc = "pD" -> <<12001>>
      [] OTHER -> <<>>

\* int(r["duration"].replace("s", ""))
ParseDuration(d) ==
    CASE d = "50s" -> 50
      [] d = "100s" -> 100
      [] OTHER -> 0

MinDistFirstPoint(pts, hazards) ==
    LET ds == {HaversineM(pts[1], hazards[j].lat) : j \in 1..Len(hazards)}
    IN  CHOOSE d \in ds : \A e \in ds : d <= e

\* min(haversine for hz in hazards for lat, lng in pts)
MinDist(pts, hazards) ==
    LET ds == {HaversineM(pts[i], hazards[j].lat) :
                   i \in 1..Len(pts), j \in 1..Len(hazards)}
    IN  CHOOSE d \in ds : \A e \in ds : d <= e

ScoreOne(r, pts, hazards) ==
    [polyline |-> r.polyline,
     duration_s |-> IF Has(r, "duration") THEN ParseDuration(r.duration) ELSE 0,
     distance_m |-> IF Has(r, "distanceMeters") THEN r.distanceMeters ELSE 0,
     min_dist |-> MinDist(pts, hazards)]

\* The loop over routes: unsafe candidates are skipped, min() raises
\* ValueError on an empty generator, and the first exception ends the loop.
RECURSIVE ScoreFrom(_, _, _, _)
ScoreFrom(routes, hazards, i, scored) ==
    IF i > Len(routes) THEN [error |-> None, scored |-> scored]
    ELSE LET r == routes[i]
             pts == Decode(r.polyline)
         IN  IF RouteIntersectsHazard(pts, hazards)
             THEN ScoreFrom(routes, hazards, i + 1, scored)
             ELSE IF Len(hazards) = 0 \/ Len(pts) = 0
             THEN [error |-> "min() arg is an empty sequence", scored |-> scored]
             ELSE ScoreFrom(routes, hazards, i + 1,
                            Append(scored, ScoreOne(r, pts, hazards)))

\* sorted(scored, key=duration_s): stable, equal keys keep their order
RECURSIVE InsertByDuration(_, _)
InsertByDuration(x, s) ==
    IF Len(s) = 0 THEN <<x>>
    ELSE IF s[Len(s)].duration_s <= x.duration_s THEN Append(s, x)
    ELSE Append(InsertByDuration(x, SubSeq(s, 1, Len(s) - 1)), s[Len(s)])

RECURSIVE SortedFrom(_, _, _)
SortedFrom(scored, i, acc) ==
    IF i > Len(scored) THEN acc
    ELSE SortedFrom(scored, i + 1, InsertByDuration(scored[i], acc))

SortedLastFirst(scored) ==
    LET s == SortedFrom(scored, 1, <<>>)
    IN  [i \in 1..Len(s) |-> s[Len(s) + 1 - i]]

SortedByDuration(scored) == SortedFrom(scored, 1, <<>>)

\* [{"polyline": r["polyline"]} for r in scored if r["polyline"] != best["polyline"]]
Alternatives(scored, best) ==
    LET keep == SelectSeq(scored, LAMBDA r : r.polyline # best.polyline)
    IN  [i \in 1..Len(keep) |-> [polyline |-> keep[i].polyline]]

\* parse_latlng succeeds on "lat,lon" text; any other text is geocoded
IsLatLng(text) == text \in {"3.1,101.6", "3.2,101.7"}

NeedsGeocode(ev) ==
    \/ ev.origin # None /\ ~IsLatLng(ev.origin)
    \/ ev.destination # None /\ ~IsLatLng(ev.destination)

Error(code, msg) == [statusCode |-> code, body |-> [error |-> msg]]

NoSafeRoutesPlain(hazards_raw, hazards) ==
    [statusCode |-> 200,
     body |-> [message |-> "No safe routes found", hazards |-> hazards_raw]]

NoSafeRoutes(hazards_raw, hazards) ==
    [statusCode |-> 200,
     body |-> [message |-> "No safe routes found", hazards |-> hazards]]

BestRouteResponse(scored, hazards) ==
    LET best == SortedByDuration(scored)[1]
    IN  [statusCode |-> 200,
         body |-> [bestRoute |-> [polyline |-> best.polyline,
                                  duration_s |-> best.duration_s,
                                  distance_m |-> best.distance_m,
                                  min_dist |-> best.min_dist],
                   alternatives |-> Alternatives(scored, best),
                   hazards |-> hazards]]

\* lambda_handler of 4-polyline.py.  ev holds the resolved request
\* parameters (query string first, then body), up what the geocoding and
\* routing providers answer, c the module-level connection.
RouteResponse(ev, up, c, table) ==
    IF ev.httpMethod = "OPTIONS" THEN [statusCode |-> 204, body |-> <<>>]
    ELSE LET weather == IF ev.weather = None THEN "clear" ELSE ev.weather
         IN  IF ev.origin = None \/ ev.origin = "" \/ ev.destination = None \/ ev.destination = ""
             THEN Error(400, "Missing origin or destination")
             ELSE IF NeedsGeocode(ev) /\ ~up.geocode_ok
             THEN Error(500, "Could not geocode")
             ELSE IF c = None
             THEN Error(500, "No DB connection available")
             ELSE IF c = "broken" \/ ~up.hazards_ok
             THEN Error(500, "hazard query failed")
             ELSE IF ~up.routes_ok
             THEN Error(500, "routing provider error")
             ELSE LET hazards_raw == FetchHazards(table)
                      hazards == AnnotateHazardsWithRadius(hazards_raw, weather)
                      res == ScoreFrom(up.routes, hazards, 1, <<>>)
                  IN  IF res.error # None THEN Error(500, res.error)
                      ELSE IF Len(res.scored) = 0 THEN NoSafeRoutes(hazards_raw, hazards)
                      ELSE BestRouteResponse(res.scored, hazards)

\* The module-level connection after RouteResponse(ev, up, c, table).  The
\* handler never assigns conn, rolls back or reconnects: once the SELECT of
\* fetch_hazards has failed, the connection is closed or its transaction is
\* aborted, and every later execute on it fails too.
ConnAfter(ev, up, c) ==
    IF ev.httpMethod = "OPTIONS" THEN c
    ELSE IF ev.origin = None \/ ev.origin = "" \/ ev.destination = None \/ ev.destination = ""
    THEN c
    ELSE IF NeedsGeocode(ev) /\ ~up.geocode_ok THEN c
    ELSE IF c = None THEN c
    ELSE IF ~up.hazards_ok THEN "broken"
    ELSE c

\* ===================================================== inputs and actions
GoodUpstream(routes) ==
    [geocode_ok |-> TRUE, hazards_ok |-> TRUE, routes_ok |-> TRUE, routes |-> routes]

Request(m, o, d, w) == [httpMethod |-> m, origin |-> o, destination |-> d, weather |-> w]

NoHit == [called |-> FALSE, points |-> <<>>, hazards |-> <<>>, result |-> FALSE]
NoEvent == Request(None, None, None, None)
NoUpstream == GoodUpstream(<<>>)
NoResp == [statusCode |-> 0, body |-> <<>>]
NoCall == [fn |-> None]
NoScoring == [called |-> FALSE]
NoRisk == [called |-> FALSE, raised |-> FALSE, urgency |-> NoneV, met_level |-> 0,
           final_score |-> 0, risk_level |-> None, color |-> None]

\* Nothing has been called or served yet.  A run exercises one operation on
\* the table built before it.
\* No single operation has been exercised
Idle ==
    /\ risk = NoRisk /\ hit = NoHit /\ call = NoCall /\ resp = NoResp
    /\ scoring = NoScoring

Fresh == Idle /\ invocations = <<>>

\* One call of _compute_final_risk on drawn arguments; a ValueError of
\* float() leaves the function without a result.
CallComputeFinalRisk ==
    /\ Fresh /\ risk_assessments = <<>>
    /\ \E u \in Urgencies \cup UrgencyTexts, m \in SeverityLevels :
        /\ FloatExact(u, m)
        /\ risk' = IF FloatRaises(u)
                   THEN [NoRisk EXCEPT !.called = TRUE, !.raised = TRUE,
                                       !.urgency = u, !.met_level = m]
                   ELSE LET out == ComputeFinalRisk(u, m)
                        IN  [called |-> TRUE, raised |-> FALSE, urgency |-> u,
                             met_level |-> m, final_score |-> out.final_score,
                             risk_level |-> out.risk_level, color |-> out.color]
        /\ UNCHANGED <<invocations, scoring, hit, risk_assessments, conn, event, upstream, resp, call>>

\* What the scoring handler computes and stores for one request (lines
\* 345 and 363-370 of 3-metData.py): a Low assessment at position 0 and a
\* Critical one at position 30000.
AssessmentSources ==
    {[district |-> "Selangor", latitude |-> 0, urgency |-> Num(0), met_level |-> 0],
     [district |-> "Johor", latitude |-> 30000, urgency |-> Num(100), met_level |-> 4]}

StoreAssessment ==
    /\ Fresh
    /\ \E a \in AssessmentSources :
        /\ Len(risk_assessments) < MaxRows
        /\ LET r == ComputeFinalRisk(a.urgency, a.met_level)
           IN  risk_assessments' =
                   InsertRiskAssessment(risk_assessments, a.district, a.latitude,
                                        0, r.final_score, r.risk_level)
        /\ UNCHANGED <<invocations, scoring, risk, hit, conn, event, upstream, resp, call>>

SeqsUpTo(S, n) == UNION {[1..k -> S] : k \in 0..n}

\* Candidate routes as the routing provider returns them; duration and
\* distanceMeters are optional in the response.
Candidates ==
    {[polyline |-> "pA", duration |-> "100s", distanceMeters |-> 900],
     [polyline |-> "pC", duration |-> "100s", distanceMeters |-> 700],
     [polyline |-> "pC", duration |-> "50s", distanceMeters |-> 800],
     [polyline |-> "pB", duration |-> "50s"],
     [polyline |-> "pD", distanceMeters |-> 500]}

Weathers == {None, "Storm", " rain "}

RouteInputs ==
    {[event |-> Request("GET", "3.1,101.6", "KLCC", w), upstream |-> GoodUpstream(rs)] :
        w \in Weathers, rs \in SeqsUpTo(Candidates, MaxRoutes)}
    \cup
    {[event |-> Request("OPTIONS", None, None, None), upstream |-> GoodUpstream(<<>>)],
     [event |-> Request("GET", "3.1,101.6", None, None), upstream |-> GoodUpstream(<<>>)],
     [event |-> Request("GET", "3.1,101.6", "KLCC", None),
      upstream |-> [GoodUpstream(<<>>) EXCEPT !.geocode_ok = FALSE]],
     [event |-> Request("GET", "3.1,101.6", "3.2,101.7", None),
      upstream |-> [GoodUpstream(<<>>) EXCEPT !.hazards_ok = FALSE]],
     [event |-> Request("GET", "3.1,101.6", "3.2,101.7", None),
      upstream |-> [GoodUpstream(<<>>) EXCEPT !.routes_ok = FALSE]]}

\* One request served on the table as it stands.  The response depends on
\* the request, the provider answers, the table and conn only.
RouteHandler ==
    /\ Fresh
    /\ \E inp \in RouteInputs :
        /\ event' = inp.event
        /\ upstream' = inp.upstream
        /\ resp' = RouteResponse(inp.event, inp.upstream, conn, risk_assessments)
        /\ conn' = ConnAfter(inp.event, inp.upstream, conn)
        /\ UNCHANGED <<invocations, scoring, risk, hit, risk_assessments, call>>

\* Inputs of route_intersects_hazard: hazards at position 0, with or
\* without radius_m and risk_level.
HazardInputs ==
    {[lat |-> 0, lng |-> 0]} \cup
    {[lat |-> 0, lng |-> 0, risk_level |-> "High"]} \cup
    {[lat |-> 0, lng |-> 0, radius_m |-> r] : r \in {0, 1500, 3000}} \cup
    {[lat |-> 0, lng |-> 0, radius_m |-> r, risk_level |-> "High"] : r \in {0, 1500, 3000}}

PointInputs == {1499, 1500, 2999, 3000, 7000}

\* One call of route_intersects_hazard on drawn arguments.
CallRouteIntersectsHazard ==
    /\ Fresh /\ risk_assessments = <<>>
    /\ \E pts \in SeqsUpTo(PointInputs, MaxPoints), hzs \in SeqsUpTo(HazardInputs, MaxHz) :
        /\ hit' = [called |-> TRUE, points |-> pts, hazards |-> hzs,
                   result |-> RouteIntersectsHazard(pts, hzs)]
        /\ UNCHANGED <<invocations, scoring, risk, risk_assessments, conn, event, upstream, resp, call>>


\* Severity values as MET results carry them: integers, names in any case,
\* digits as text, and text that is neither.
SeverityTexts ==
    {"red", "emergency", "severe", "orange", "warning", "amber", "watch",
     "yellow", "advisory", "info", "information", "unknown", "RED", "Amber",
     " Orange ", "3", " 4 ", "7", "-2", "3.5", ""}

SeverityInputs ==
    {NoneV} \cup {Num(n) : n \in (0 - 2)..6} \cup {Str(t) : t \in SeverityTexts}

\* One call of _severity_to_level on a drawn value.
CallSeverityToLevel ==
    /\ Fresh /\ risk_assessments = <<>>
    /\ \E sev \in SeverityInputs :
        /\ call' = [fn |-> "severity_to_level", arg |-> sev,
                    level |-> SeverityToLevel(sev)]
        /\ UNCHANGED <<invocations, scoring, risk, hit, risk_assessments, conn, event, upstream, resp>>

\* Entries of a results list: the severity under one of the three keys,
\* under none, a falsy severity next to a level, and an entry that is no dict.
WarningEntries ==
    {[severity |-> Str("red")],
     [level |-> Str("orange")],
     [severity_level |-> Num(2)],
     [severity |-> Str("yellow"), level |-> Str("red")],
     [severity |-> Num(0), level |-> Str("red")],
     [severity |-> Str("unknown")],
     [title |-> Str("Heavy rain")],
     NotADict}

\* One call of _max_severity_level on a drawn list, or on None.
CallMaxSeverityLevel ==
    /\ Fresh /\ risk_assessments = <<>>
    /\ \E results \in {ListV(l) : l \in SeqsUpTo(WarningEntries, MaxWarnings)} \cup {NoneV} :
        /\ LET out == MaxSeverityLevel(results)
           IN  call' = [fn |-> "max_severity_level", arg |-> results,
                        raised |-> out.raised, level |-> out.level]
        /\ UNCHANGED <<invocations, scoring, risk, hit, risk_assessments, conn, event, upstream, resp>>

LevelInputs ==
    {None, "", "critical", "CRITICAL", "very high", "VERY HIGH", "severe",
     " severe ", "high", "HIGH", " high ", "medium", "Medium", "moderate",
     "Moderate", "low", "Low", "unknown"}

\* One call of hazard_radius_from_level on a drawn level; None is a level
\* that is no str.
CallHazardRadiusFromLevel ==
    /\ Fresh /\ risk_assessments = <<>>
    /\ \E level \in LevelInputs :
        /\ call' = [fn |-> "hazard_radius_from_level", arg |-> level,
                    radius |-> HazardRadiusFromLevel(level)]
        /\ UNCHANGED <<invocations, scoring, risk, hit, risk_assessments, conn, event, upstream, resp>>

\* Scores in tenths: the persisted 1-10 scale and below, the 0-100 scale
\* around its thresholds, and values float() rejects.
ScoreInputs ==
    {Num(n) : n \in 0..110}
    \cup {Num(n) : n \in {399, 400, 599, 600, 799, 800, 1000}}
    \cup {NoneV, Str("85"), Str("abc"), Str("")}

\* One call of hazard_radius_from_score on a drawn score.
CallHazardRadiusFromScore ==
    /\ Fresh /\ risk_assessments = <<>>
    /\ \E score \in ScoreInputs :
        /\ call' = [fn |-> "hazard_radius_from_score", arg |-> score,
                    radius |-> HazardRadiusFromScoreValue(score)]
        /\ UNCHANGED <<invocations, scoring, risk, hit, risk_assessments, conn, event, upstream, resp>>

WeatherInputs ==
    {None, "", "storm", "thunderstorm", "heavy rain", "tropical storm", "rain",
     "fog", "haze", "drizzle", "clear", "sunny", "Storm", " rain ", "Heavy Rain",
     "FOG", "haze ", "Clear"}

\* One call of weather_scale on a drawn weather.
CallWeatherScale ==
    /\ Fresh /\ risk_assessments = <<>>
    /\ \E weather \in WeatherInputs :
        /\ call' = [fn |-> "weather_scale", arg |-> weather,
                    scale |-> WeatherScale(weather)]
        /\ UNCHANGED <<invocations, scoring, risk, hit, risk_assessments, conn, event, upstream, resp>>

\* Hazard dicts handed to annotate_hazards_with_radius: with risk_level,
\* final_score, both or neither, and with a radius_m left by an earlier call.
AnnotateInputs ==
    {[id |-> 1, lat |-> 0, lng |-> 0, risk_level |-> "Critical", final_score |-> 20],
     [id |-> 2, lat |-> 0, lng |-> 0, risk_level |-> "Low", final_score |-> 850],
     [id |-> 3, lat |-> 0, lng |-> 0, final_score |-> 850],
     [id |-> 4, lat |-> 0, lng |-> 0, final_score |-> 65],
     [id |-> 5, lat |-> 0, lng |-> 0],
     [id |-> 6, lat |-> 0, lng |-> 0, risk_level |-> "High", radius_m |-> 999],
     [id |-> 7, lat |-> 0, lng |-> 0, final_score |-> 650, radius_m |-> 5]}

AnnotateWeathers == {None, "clear", "Storm", " rain "}

\* One call of annotate_hazards_with_radius on a drawn list and weather.
CallAnnotate ==
    /\ Fresh /\ risk_assessments = <<>>
    /\ \E hazards \in SeqsUpTo(AnnotateInputs, MaxHz), weather \in AnnotateWeathers :
        /\ call' = [fn |-> "annotate", hazards |-> hazards, weather |-> weather,
                    out |-> AnnotateHazardsWithRadius(hazards, weather),
                    after |-> HazardsAfterAnnotate(hazards, weather),
                    again |-> FALSE, out2 |-> <<>>]
        /\ UNCHANGED <<invocations, scoring, risk, hit, risk_assessments, conn, event, upstream, resp>>

\* The list it returned is annotated once more with the same weather.
CallAnnotateAgain ==
    /\ call.fn = "annotate" /\ ~call.again
    /\ call' = [call EXCEPT !.again = TRUE,
                            !.out2 = AnnotateHazardsWithRadius(call.out, call.weather)]
    /\ UNCHANGED <<invocations, scoring, risk, hit, risk_assessments, conn, event, upstream, resp>>

RecommendationInputs ==
    {None, "", "Critical", "critical", "CRITICAL", "High", "HIGH", "Moderate",
     "moderate", "Low", "low", "unknown"}

\* One call of _recommendation_for_level on a drawn level.
CallRecommendationForLevel ==
    /\ Fresh /\ risk_assessments = <<>>
    /\ \E level \in RecommendationInputs :
        /\ call' = [fn |-> "recommendation_for_level", arg |-> level,
                    text |-> RecommendationForLevel(level)]
        /\ UNCHANGED <<invocations, scoring, risk, hit, risk_assessments, conn, event, upstream, resp>>

\* Scoring requests: with and without city, lat and lon, and with the two
\* urgency fields absent, zero, positive or text.
ScoreEvents ==
    [city : {None, "Klang"},
     lat : {NoneV, Num(31), Str("north")},
     lon : {NoneV, Num(1016)},
     nlp : {NoneV, Num(0), Num(85), Str("high")},
     analysis : {NoneV, Num(40)}]

RainsAnswers == {NoneV, ListV(<<>>), ListV(<<[severity |-> Str("orange")]>>)}
RainAnswers ==
    {NoneV, ListV(<<>>), ListV(<<[severity |-> Str("red")]>>), ListV(<<NotADict>>)}

GoodEnv(rains, rain, insert_ok) ==
    [token |-> TRUE, db |-> TRUE, find |-> "found", rains |-> rains, rain |-> rain,
     insert_ok |-> insert_ok]

\* Environments: every collaborator answers, or exactly one of them fails.
ScoreEnvs ==
    {GoodEnv(a, b, i) : a \in RainsAnswers, b \in RainAnswers, i \in BOOLEAN}
    \cup {[GoodEnv(ListV(<<>>), ListV(<<>>), TRUE) EXCEPT !.token = FALSE],
          [GoodEnv(ListV(<<>>), ListV(<<>>), TRUE) EXCEPT !.db = FALSE]}
    \cup {[GoodEnv(ListV(<<>>), ListV(<<>>), TRUE) EXCEPT !.find = f] :
             f \in {"none", "fails", "noid"}}

\* One scoring request handled from start to end.
ScoreHandler ==
    /\ Fresh /\ risk_assessments = <<>>
    /\ \E ev \in ScoreEvents, env \in ScoreEnvs :
        /\ LET h == ScoreHandlerResult(ev, env, risk_assessments)
           IN  /\ scoring' = [called |-> TRUE, event |-> ev, env |-> env,
                              resp |-> h.resp, trace |-> h.trace]
               /\ risk_assessments' = h.table
        /\ UNCHANGED <<invocations, risk, hit, conn, event, upstream, resp, call>>

\* Requests a warm container serves one after the other: a route request
\* whose hazard read succeeds or fails, with a candidate that passes near
\* the town and one that stays away.
InvokeRouteInputs ==
    {[event |-> Request("GET", "3.1,101.6", "3.2,101.7", None),
      upstream |-> GoodUpstream(<<[polyline |-> "pA", duration |-> "100s"],
                                  [polyline |-> "pD", duration |-> "50s"]>>)],
     [event |-> Request("GET", "3.1,101.6", "3.2,101.7", "Storm"),
      upstream |-> GoodUpstream(<<[polyline |-> "pD", duration |-> "50s"]>>)],
     [event |-> Request("GET", "3.1,101.6", "3.2,101.7", None),
      upstream |-> [GoodUpstream(<<[polyline |-> "pD", duration |-> "50s"]>>)
                        EXCEPT !.hazards_ok = FALSE]]}

InvokeScoreInputs ==
    {[event |-> [city |-> "Klang", lat |-> NoneV, lon |-> NoneV, nlp |-> u,
                 analysis |-> NoneV],
      env |-> GoodEnv(ListV(<<>>), r, TRUE)] :
        u \in {Num(85), NoneV},
        r \in {ListV(<<>>), ListV(<<[severity |-> Str("red")]>>)}}

\* The route handler serves one more request in the container: it reads
\* the table as it stands through the module-level connection.
RouteInvoke ==
    /\ Idle
    /\ Len(invocations) < MaxInvocations
    /\ \E inp \in InvokeRouteInputs :
        /\ invocations' =
               Append(invocations,
                      [kind |-> "route", event |-> inp.event, upstream |-> inp.upstream,
                       table |-> risk_assessments,
                       resp |-> RouteResponse(inp.event, inp.upstream, conn,
                                              risk_assessments)])
        /\ conn' = ConnAfter(inp.event, inp.upstream, conn)
        /\ UNCHANGED <<risk, hit, risk_assessments, event, upstream, resp, call, scoring>>

\* The scoring handler serves one more request: it opens its own
\* connection and appends its assessment to the table.
ScoreInvoke ==
    /\ Idle
    /\ Len(invocations) < MaxInvocations
    /\ \E inp \in InvokeScoreInputs :
        LET h == ScoreHandlerResult(inp.event, inp.env, risk_assessments)
        IN  /\ invocations' =
                   Append(invocations,
                          [kind |-> "score", event |-> inp.event, upstream |-> inp.env,
                           table |-> risk_assessments, resp |-> h.resp])
            /\ risk_assessments' = h.table
            /\ UNCHANGED <<risk, hit, conn, event, upstream, resp, call, scoring>>

\* Hazard rows and route points for the safety of one route under two
\* hazard lists and two weathers
SafetyHazards ==
    {[lat |-> 0, lng |-> 0, risk_level |-> "Low"],
     [lat |-> 0, lng |-> 0, risk_level |-> "High"],
     [lat |-> 20000, lng |-> 0, risk_level |-> "Critical"]}

SafetyPoints == {1499, 1500, 1951, 7000}

\* The safety test of the route handler (annotate, then
\* route_intersects_hazard) on one route, for a hazard list under a weather
\* and for a list that contains it under another weather.
CallRouteSafety ==
    /\ Fresh /\ risk_assessments = <<>>
    /\ \E pts \in SeqsUpTo(SafetyPoints, MaxPoints),
          hzs \in SeqsUpTo(SafetyHazards, MaxHz),
          more \in SeqsUpTo(SafetyHazards, 1),
          w \in Weathers, w2 \in Weathers :
        /\ call' = [fn |-> "route_safety", points |-> pts, hazards |-> hzs,
                    hazards2 |-> more \o hzs, weather |-> w, weather2 |-> w2,
                    unsafe |-> RouteIntersectsHazard(pts,
                                   AnnotateHazardsWithRadius(hzs, w)),
                    unsafe2 |-> RouteIntersectsHazard(pts,
                                    AnnotateHazardsWithRadius(more \o hzs, w2))]
        /\ UNCHANGED <<invocations, scoring, risk, hit, risk_assessments, conn, event, upstream, resp>>

\* State after the modules are imported: nothing handled yet, the table as
\* the scoring handler will fill it, the module-level connection open or,
\* when psycopg.connect failed at import, None.
Init ==
    /\ risk = NoRisk
    /\ hit = NoHit
    /\ risk_assessments = <<>>
    /\ conn \in {"open", None}
    /\ event = NoEvent
    /\ upstream = NoUpstream
    /\ resp = NoResp
    /\ call = NoCall
    /\ scoring = NoScoring
    /\ invocations = <<>>

InitOpen == Init /\ conn = "open"

NextRoute == StoreAssessment \/ RouteHandler
NextRisk == CallComputeFinalRisk
NextIntersect == CallRouteIntersectsHazard
NextSeverity == CallSeverityToLevel \/ CallMaxSeverityLevel
NextRadius ==
    \/ CallHazardRadiusFromLevel
    \/ CallHazardRadiusFromScore
    \/ CallWeatherScale
    \/ CallAnnotate
    \/ CallAnnotateAgain

NextScoring == ScoreHandler \/ CallRecommendationForLevel
NextInvocations == RouteInvoke \/ ScoreInvoke
NextSafety == CallRouteSafety
Next ==
    \/ StoreAssessment
    \/ RouteHandler
    \/ CallComputeFinalRisk
    \/ CallRouteIntersectsHazard
    \/ CallSeverityToLevel
    \/ CallMaxSeverityLevel
    \/ CallHazardRadiusFromLevel
    \/ CallHazardRadiusFromScore
    \/ CallWeatherScale
    \/ CallAnnotate
    \/ CallAnnotateAgain
    \/ CallRecommendationForLevel
    \/ ScoreHandler
    \/ RouteInvoke
    \/ ScoreInvoke
    \/ CallRouteSafety

SpecRoute == Init /\ [][NextRoute]_vars
SpecRisk == InitOpen /\ [][NextRisk]_vars
SpecIntersect == InitOpen /\ [][NextIntersect]_vars
SpecSeverity == InitOpen /\ [][NextSeverity]_vars
SpecRadius == InitOpen /\ [][NextRadius]_vars
SpecScoring == InitOpen /\ [][NextScoring]_vars
SpecSafety == InitOpen /\ [][NextSafety]_vars
SpecInvocations == InitOpen /\ [][NextInvocations]_vars
Spec == Init /\ [][Next]_vars

\* ================================================================ claims
\* The request reached route selection: no preflight, both endpoints given
\* and every collaborator answered.
Selecting ==
    /\ resp # NoResp
    /\ event.httpMethod = "GET"
    /\ event.origin # None /\ event.destination # None
    /\ upstream.geocode_ok /\ upstream.hazards_ok /\ upstream.routes_ok
    /\ conn = "open"

\* Radius by the tables of the design: base radius of the level times the
\* weather factor.
TableRadius(level, weather) ==
    LET base == CASE level = "Critical" -> 10000
                  [] level = "High" -> 6000
                  [] level = "Moderate" -> 3000
                  [] OTHER -> 1500
        tenths == CASE weather = "Storm" -> 18
                    [] weather = " rain " -> 13
                    [] OTHER -> 10
    IN  (base * tenths) \div 10

\* The hazards of the request as the design describes them: the newest
\* five rows, newest first, each with its table radius.
TableHazards ==
    LET n == Len(risk_assessments)
        k == IF n < 5 THEN n ELSE 5
    IN  [i \in 1..k |->
            [lat |-> risk_assessments[n + 1 - i].latitude,
             radius_m |-> TableRadius(risk_assessments[n + 1 - i].risk_level,
                                      event.weather)]]

\* Some decoded point of the path is strictly inside some hazard of hs
UnsafePath(enc, hs) ==
    \E i \in 1..Len(Decode(enc)) : \E j \in 1..Len(hs) :
        Abs(Decode(enc)[i] - hs[j].lat) < hs[j].radius_m

\* Indices of the safe candidates of the request
SafeIdx == {i \in 1..Len(upstream.routes) :
               ~UnsafePath(upstream.routes[i].polyline, TableHazards)}

DurationOf(r) == IF "duration" \in DOMAIN r THEN ParseDuration(r.duration) ELSE 0

\* Index of the safe candidate the design selects: least duration, then
\* earliest in the candidate order
BestIdx ==
    CHOOSE i \in SafeIdx : \A j \in SafeIdx :
        \/ DurationOf(upstream.routes[i]) < DurationOf(upstream.routes[j])
        \/ /\ DurationOf(upstream.routes[i]) = DurationOf(upstream.routes[j])
           /\ i <= j

HasBest == resp # NoResp /\ "bestRoute" \in DOMAIN resp.body

ReturnedPolylines ==
    {resp.body.bestRoute.polyline} \cup
    {resp.body.alternatives[i].polyline : i \in 1..Len(resp.body.alternatives)}

\* C1: whenever the route handler returns a bestRoute, no decoded point of the
\* best route or of a returned alternative is strictly inside the radius_m of
\* a returned hazard, and no unsafe candidate is among the returned routes.
C1_ReturnedRoutesAvoidHazards ==
    HasBest =>
        /\ \A enc \in ReturnedPolylines : ~UnsafePath(enc, resp.body.hazards)
        /\ \A i \in 1..Len(upstream.routes) :
               UnsafePath(upstream.routes[i].polyline, TableHazards)
                   => upstream.routes[i].polyline \notin ReturnedPolylines

\* A best route is returned while another candidate was discarded as unsafe
\* for a hazard that is not the newest one.
C1_Witness ==
    /\ HasBest
    /\ Len(resp.body.hazards) >= 2
    /\ \E i \in 1..Len(upstream.routes) :
           /\ UnsafePath(upstream.routes[i].polyline, TableHazards)
           /\ ~UnsafePath(upstream.routes[i].polyline, SubSeq(TableHazards, 1, 1))

\* C2: for hazards that all carry a radius_m >= 0, route_intersects_hazard
\* returns True exactly when some point is at a distance strictly below some
\* hazard's radius_m.
C2_IntersectsIffStrictlyInside ==
    (hit.called /\ \A j \in 1..Len(hit.hazards) :
                       "radius_m" \in DOMAIN hit.hazards[j] /\ hit.hazards[j].radius_m >= 0)
        => (hit.result <=>
               \E i \in 1..Len(hit.points) : \E j \in 1..Len(hit.hazards) :
                   Abs(hit.points[i] - hit.hazards[j].lat) < hit.hazards[j].radius_m)

\* C3: with no hazards and at least one candidate, route selection answers
\* with a best route (the least duration), the others as alternatives and an
\* empty hazard list, not with an error.
C3_EmptyHazardsGiveBestRoute ==
    (Selecting /\ Len(risk_assessments) = 0 /\ Len(upstream.routes) > 0)
        => /\ resp.statusCode = 200
           /\ HasBest
           /\ resp.body.bestRoute.duration_s = DurationOf(upstream.routes[BestIdx])
           /\ Len(resp.body.alternatives) = Len(upstream.routes) - 1
           /\ resp.body.hazards = <<>>

RECURSIVE OtherSafeFrom(_)
OtherSafeFrom(i) ==
    IF i > Len(upstream.routes) THEN <<>>
    ELSE IF i \in SafeIdx /\ i # BestIdx
         THEN <<[polyline |-> upstream.routes[i].polyline]>> \o OtherSafeFrom(i + 1)
         ELSE OtherSafeFrom(i + 1)

\* C5: when a best route is returned, alternatives holds one entry per safe
\* candidate other than the selected one, each with its encoded polyline,
\* also when two safe candidates have the same polyline.
C5_AlternativesAreOtherSafe ==
    HasBest =>
        /\ Len(resp.body.alternatives) = Cardinality(SafeIdx) - 1
        /\ resp.body.alternatives = OtherSafeFrom(1)

\* C6: when no candidate is safe the handler answers 200 with the message
\* "No safe routes found" and no bestRoute, and it gives that answer only
\* when no candidate is safe.
C6_NoSafeRouteOutcome ==
    /\ (Selecting /\ SafeIdx = {})
           => /\ resp.statusCode = 200
              /\ "message" \in DOMAIN resp.body
              /\ resp.body.message = "No safe routes found"
              /\ "bestRoute" \notin DOMAIN resp.body
    /\ (resp # NoResp /\ "message" \in DOMAIN resp.body) => SafeIdx = {}

\* Two candidates, both unsafe, one of them only for the older hazard, are
\* answered with the message.
C6_Witness ==
    /\ Selecting
    /\ Len(upstream.routes) = 2
    /\ SafeIdx = {}
    /\ \E i \in 1..2 :
           ~UnsafePath(upstream.routes[i].polyline, SubSeq(TableHazards, 1, 1))
    /\ "message" \in DOMAIN resp.body

\* C7: in the best-route result and in the no-safe-route result the hazards
\* field is the list read for the request, the newest five rows, and every
\* hazard in it carries the radius_m of its level under the request's weather.
C7_HazardsAlwaysReported ==
    (resp # NoResp /\ resp.statusCode = 200) =>
        /\ "hazards" \in DOMAIN resp.body
        /\ Len(resp.body.hazards) = Len(TableHazards)
        /\ \A i \in 1..Len(TableHazards) :
               LET h == resp.body.hazards[i]
                   row == risk_assessments[Len(risk_assessments) + 1 - i]
               IN  /\ "radius_m" \in DOMAIN h
                   /\ h.radius_m = TableHazards[i].radius_m
                   /\ h.id = row.id
                   /\ h.district = row.district
                   /\ h.lat = row.latitude /\ h.lng = row.longitude
                   /\ h.final_score = row.final_score
                   /\ h.risk_level = row.risk_level
                   /\ h.recommendation = row.recommendation

\* The no-safe-route result under a storm with six rows stored reports the
\* newest five, and so does a best-route result.
C7_Witness ==
    /\ resp.statusCode = 200
    /\ "message" \in DOMAIN resp.body
    /\ Len(risk_assessments) = 6
    /\ Len(resp.body.hazards) = 5
    /\ event.weather = "Storm"

Rank(level) ==
    CASE level = "Low" -> 0
      [] level = "Moderate" -> 1
      [] level = "High" -> 2
      [] level = "Critical" -> 3
      [] OTHER -> 0 - 1

ColorOf(level) ==
    CASE level = "Low" -> "green"
      [] level = "Moderate" -> "yellow"
      [] level = "High" -> "orange"
      [] level = "Critical" -> "red"
      [] OTHER -> None

\* C8: _compute_final_risk classifies the rounded score with inclusive upper
\* bounds (<= 3.0 Low/green, <= 6.0 Moderate/yellow, <= 8.0 High/orange, above
\* Critical/red); the level never decreases as the score grows and the colour
\* is determined by the level.
C8_InclusiveThresholds ==
    (risk.called /\ ~risk.raised) =>
        /\ risk.final_score <= 30 => risk.risk_level = "Low"
        /\ (risk.final_score > 30 /\ risk.final_score <= 60) => risk.risk_level = "Moderate"
        /\ (risk.final_score > 60 /\ risk.final_score <= 80) => risk.risk_level = "High"
        /\ risk.final_score > 80 => risk.risk_level = "Critical"
        /\ risk.color = ColorOf(risk.risk_level)
        /\ \A u \in Urgencies, m \in SeverityLevels :
               LET other == ComputeFinalRisk(u, m)
               IN  (FloatExact(u, m) /\ other.final_score <= risk.final_score)
                       => Rank(other.risk_level) <= Rank(risk.risk_level)

\* A score of exactly 6.0 is classified Moderate/yellow.
C8_Witness ==
    risk.called /\ risk.final_score = 60 /\ risk.risk_level = "Moderate"
        /\ risk.color = "yellow"

\* C9: for urgency in [0,10] and metLevel in 0..4 the score is
\* urgency*0.5 + metLevel*2.5*0.5 rounded to one decimal, within [0,10];
\* urgency 8.0 with metLevel 2 gives 6.5, High, orange.
C9_ScoreIsRoundedFusion ==
    (risk.called /\ risk.urgency.t = "num"
        /\ risk.urgency.v >= 0 /\ risk.urgency.v <= 100) =>
        /\ Abs(10 * risk.final_score - (5 * risk.urgency.v + 125 * risk.met_level)) <= 5
        /\ risk.final_score >= 0 /\ risk.final_score <= 100
        /\ (risk.urgency.v = 80 /\ risk.met_level = 2) =>
               /\ risk.final_score = 65
               /\ risk.risk_level = "High"
               /\ risk.color = "orange"

\* The call with urgency 8.0 and metLevel 2 returned 6.5.
C9_Witness ==
    /\ risk.called /\ risk.urgency = Num(80) /\ risk.met_level = 2
    /\ risk.final_score = 65

Result(r) == [final_score |-> r.final_score, risk_level |-> r.risk_level,
              color |-> r.color]

\* C10: the result for a numeric urgency below 0 is the result for 0, for one
\* above 10 it is the result for 10, and for an absent urgency it is the
\* result for 0, at the same metLevel.
C10_UrgencyClamped ==
    risk.called =>
        /\ (risk.urgency.t = "num" /\ risk.urgency.v < 0)
               => Result(risk) = ComputeFinalRisk(Num(0), risk.met_level)
        /\ (risk.urgency.t = "num" /\ risk.urgency.v > 100)
               => Result(risk) = ComputeFinalRisk(Num(100), risk.met_level)
        /\ risk.urgency.t = "none"
               => Result(risk) = ComputeFinalRisk(Num(0), risk.met_level)

\* A call with urgency -0.5 and metLevel 3 returned 3.8, the result for 0.
C10_Witness ==
    /\ risk.called /\ risk.urgency = Num(0 - 5) /\ risk.met_level = 3
    /\ risk.final_score = 38

\* Level of a severity text by the tables of the design: integers clamped
\* to 0..4, the listed names in any case, anything else 0.
TableSeverityText(t) ==
    CASE t \in {"red", "RED", "emergency", "severe", "7", " 4 "} -> 4
      [] t \in {"orange", "warning", "3"} -> 3
      [] t \in {"amber", "Amber", "watch"} -> 2
      [] t \in {"yellow", "advisory", "info", "information"} -> 1
      [] OTHER -> 0

MaxOf(S) == CHOOSE x \in S : \A y \in S : y <= x

AllDicts(items) == \A i \in 1..Len(items) : "notdict" \notin DOMAIN items[i]

\* The first of severity, level, severity_level that the record has
FirstPresent(r) ==
    IF "severity" \in DOMAIN r THEN r.severity
    ELSE IF "level" \in DOMAIN r THEN r.level
    ELSE IF "severity_level" \in DOMAIN r THEN r.severity_level
    ELSE NoneV

\* The first of them whose value is truthy, None when there is none
FirstTruthy(r) ==
    LET ks == <<"severity", "level", "severity_level">>
        ok == {i \in 1..3 : ks[i] \in DOMAIN r /\ Truthy(r[ks[i]])}
    IN  IF ok = {} THEN NoneV
        ELSE r[ks[CHOOSE i \in ok : \A j \in ok : i <= j]]

\* C13 as stated: _max_severity_level returns the greatest level over the
\* records, each read from the first of severity, level, severity_level
\* that is present; 0 for an empty or absent list; always within 0..4.
C13_MaxOverFirstPresent ==
    (call.fn = "max_severity_level" /\ call.arg.t = "list" /\ AllDicts(call.arg.items)) =>
        /\ ~call.raised
        /\ call.level = MaxOf({0} \cup {SeverityToLevel(FirstPresent(call.arg.items[i])) :
                                            i \in 1..Len(call.arg.items)})

\* C13 amended: each record is read from the first of severity, level,
\* severity_level whose value is truthy (not None, 0 or empty); the result is
\* the greatest level, 0 for an empty or absent list, always within 0..4.
C13_MaxOverFirstTruthy ==
    /\ (call.fn = "max_severity_level" /\ call.arg.t = "list" /\ AllDicts(call.arg.items)) =>
           /\ ~call.raised
           /\ call.level \in 0..4
           /\ call.level = MaxOf({0} \cup {SeverityToLevel(FirstTruthy(call.arg.items[i])) :
                                               i \in 1..Len(call.arg.items)})
    /\ (call.fn = "max_severity_level"
            /\ (call.arg.t = "none" \/ (call.arg.t = "list" /\ Len(call.arg.items) = 0))) =>
           (~call.raised /\ call.level = 0)

\* A list holding a record with severity 0 and level "red" next to a record
\* that has only level "orange" gave level 4.
C13_Witness ==
    /\ call.fn = "max_severity_level" /\ call.arg.t = "list"
    /\ call.arg.items = <<[level |-> Str("orange")],
                          [severity |-> Num(0), level |-> Str("red")]>>
    /\ call.level = 4

\* C14: _max_severity_level raises no error for malformed entries: an entry
\* without a severity field, with an unrecognised value, or that is no record
\* contributes level 0 and the other entries still count.
C14_MalformedEntriesDegrade ==
    (call.fn = "max_severity_level" /\ call.arg.t = "list") =>
        /\ ~call.raised
        /\ call.level =
               MaxOf({0} \cup {SeverityToLevel(FirstTruthy(call.arg.items[i])) :
                          i \in {j \in 1..Len(call.arg.items) :
                                    "notdict" \notin DOMAIN call.arg.items[j]}})


\* Base radius the design gives a level name, on names without padding
TableLevelRadius(level) ==
    IF level \in {"critical", "CRITICAL", "Critical", "very high", "VERY HIGH", "severe"} THEN 10000
    ELSE IF level \in {"high", "HIGH", "High"} THEN 6000
    ELSE IF level \in {"medium", "Medium", "moderate", "Moderate"} THEN 3000
    ELSE 1500

Padded(s) == s \in {" severe ", " high ", " rain ", "haze "}

TableScoreRadius(score) ==
    IF score >= 800 THEN 10000
    ELSE IF score >= 600 THEN 6000
    ELSE IF score >= 400 THEN 3000
    ELSE 1500

\* Weather factor of the design, in tenths, after trimming and in any case
TableWeatherFactor(weather) ==
    IF weather \in {"storm", "Storm", "thunderstorm", "heavy rain", "Heavy Rain",
                    "tropical storm"} THEN 18
    ELSE IF weather \in {"rain", " rain ", "fog", "FOG", "haze", "haze ", "drizzle"} THEN 13
    ELSE 10

\* C16: hazard_radius_from_score gives the Critical radius from 80, the High
\* radius from 60, the Moderate radius from 40 and the Low radius below, so a
\* score on the persisted 1-10 scale gives the Low radius, also through the
\* annotation of a hazard that has no risk_level.
C16_RadiusFromScoreThresholds ==
    /\ (call.fn = "hazard_radius_from_score" /\ call.arg.t = "num") =>
           /\ call.radius = TableScoreRadius(call.arg.v)
           /\ (call.arg.v >= 10 /\ call.arg.v <= 100) => call.radius = 1500
    /\ call.fn = "annotate" =>
           \A i \in 1..Len(call.hazards) :
               LET hz == call.hazards[i]
               IN  (/\ "risk_level" \notin DOMAIN hz
                    /\ "final_score" \in DOMAIN hz
                    /\ hz.final_score >= 10 /\ hz.final_score <= 100) =>
                       call.out[i].radius_m * 10 = 1500 * TableWeatherFactor(call.weather)

C16_Witness ==
    /\ call.fn = "hazard_radius_from_score"
    /\ call.arg = Num(100)
    /\ call.radius = 1500

\* C17: weather_scale is 1.8 for storm, thunderstorm, heavy rain and tropical
\* storm, 1.3 for rain, fog, haze and drizzle, 1.0 for anything else, absent
\* and empty included, after trimming and in any letter case; a route request
\* without weather has its hazards scaled by 1.0.
C17_WeatherScaleTable ==
    /\ call.fn = "weather_scale" => call.scale = TableWeatherFactor(call.arg)
    /\ (/\ resp.statusCode = 200
        /\ "hazards" \in DOMAIN resp.body
        /\ event.weather = None) =>
           /\ Len(resp.body.hazards) = Len(TableHazards)
           /\ \A i \in 1..Len(TableHazards) :
                  resp.body.hazards[i].radius_m =
                      TableRadius(risk_assessments[Len(risk_assessments) + 1 - i].risk_level,
                                  "clear")

C17_Witness ==
    /\ call.fn = "weather_scale"
    /\ call.arg = " rain "
    /\ call.scale = 13

\* Base radius of a hazard by the design: from risk_level when it has one,
\* else from final_score when it has one, else Low
TableBase(hz) ==
    IF "risk_level" \in DOMAIN hz THEN TableLevelRadius(hz.risk_level)
    ELSE IF "final_score" \in DOMAIN hz THEN TableScoreRadius(hz.final_score)
    ELSE 1500

\* C18: annotation gives every hazard radius_m = base radius times weather
\* factor as an integer, the base taken from risk_level when present, else
\* from final_score, else Low; a Critical hazard under storm gets 18000.
C18_AnnotatedRadius ==
    call.fn = "annotate" =>
        /\ Len(call.out) = Len(call.hazards)
        /\ \A i \in 1..Len(call.hazards) :
               /\ call.out[i].radius_m * 10 =
                      TableBase(call.hazards[i]) * TableWeatherFactor(call.weather)
               /\ (/\ "risk_level" \in DOMAIN call.hazards[i]
                   /\ call.hazards[i].risk_level = "Critical"
                   /\ call.weather = "Storm") => call.out[i].radius_m = 18000

C18_Witness ==
    /\ call.fn = "annotate"
    /\ call.weather = "Storm"
    /\ Len(call.hazards) = 2
    /\ call.hazards[1].id = 2 /\ call.out[1].radius_m = 2700
    /\ call.hazards[2].id = 1 /\ call.out[2].radius_m = 18000

\* C19: annotating an annotated list again with the same weather gives the
\* same radii.
C19_AnnotateIdempotent ==
    (call.fn = "annotate" /\ call.again) =>
        /\ Len(call.out2) = Len(call.out)
        /\ \A i \in 1..Len(call.out) : call.out2[i].radius_m = call.out[i].radius_m

C19_Witness ==
    /\ call.fn = "annotate" /\ call.again
    /\ call.weather = "Storm"
    /\ Len(call.hazards) = 1
    /\ call.hazards[1].id = 6
    /\ call.out[1].radius_m = 10800
    /\ call.out2[1].radius_m = 10800


\* Texts that are neither a number nor a severity name
MalformedSeverities == {Str("unknown"), Str("3.5"), Str("")}
MalformedScores == {NoneV, Str("abc"), Str("")}

\* C11: a malformed numeric field is never fatal: _compute_final_risk on an
\* urgency that is no number returns the result it returns for urgency 0, a
\* severity that is no number and no name gives level 0, and a score that is
\* no number gives the Low radius.
C11_MalformedNumbersDegrade ==
    /\ (risk.called /\ risk.urgency.t = "str") =>
           /\ ~risk.raised
           /\ risk.final_score = ComputeFinalRisk(Num(0), risk.met_level).final_score
           /\ risk.risk_level = ComputeFinalRisk(Num(0), risk.met_level).risk_level
    /\ (call.fn = "severity_to_level" /\ call.arg \in MalformedSeverities) =>
           call.level = 0
    /\ (call.fn = "hazard_radius_from_score" /\ call.arg \in MalformedScores) =>
           call.radius = 1500

\* Recommendation the design gives a level name
TableRecommendation(level) ==
    IF level \in {"Critical", "critical", "CRITICAL"}
    THEN "Danger: Avoid travel in affected areas; move to higher ground and follow official instructions."
    ELSE IF level \in {"High", "high", "HIGH"}
    THEN "High risk: Monitor official warnings, prepare evacuation plan, avoid low-lying areas."
    ELSE IF level \in {"Moderate", "moderate"}
    THEN "Moderate risk: Stay alert, check local advisories, avoid flood-prone roads."
    ELSE "Low risk: No immediate action needed; stay informed of updates."

\* The scoring request was answered with an assessment id
Persisted ==
    /\ scoring.called
    /\ scoring.resp.statusCode = 200
    /\ "assessment_id" \in DOMAIN scoring.resp.body

\* C20: the recommendation is the text of the level's class, in any letter
\* case, the Low text for any other or absent level; the recommendation in
\* the response of a scoring request is the one in the row it wrote, and a
\* response without assessment id wrote no row.
C20_RecommendationByLevel ==
    /\ call.fn = "recommendation_for_level" => call.text = TableRecommendation(call.arg)
    /\ Persisted =>
           /\ Len(risk_assessments) = 1
           /\ risk_assessments[1].id = scoring.resp.body.assessment_id
           /\ risk_assessments[1].recommendation = scoring.resp.body.recommendation
           /\ scoring.resp.body.recommendation =
                  TableRecommendation(scoring.resp.body.risk.risk_level)
    /\ (scoring.called /\ ~Persisted) => risk_assessments = <<>>

C20_Witness ==
    /\ Persisted
    /\ scoring.resp.body.risk.risk_level = "Critical"
    /\ scoring.resp.body.recommendation = "Danger: Avoid travel in affected areas; move to higher ground and follow official instructions."
    /\ risk_assessments[1].recommendation = scoring.resp.body.recommendation


\* The request names no city and lacks a numeric lat or a numeric lon
NoLocationGiven ==
    /\ scoring.called
    /\ scoring.event.city = None
    /\ (scoring.event.lat.t # "num" \/ scoring.event.lon.t # "num")

\* C21: a scoring request with neither a city nor both lat and lon is
\* answered 400 missing-location before the token is read, a connection is
\* opened or warnings are fetched; the response carries no score and no
\* assessment is written.
C21_MissingLocationFirst ==
    NoLocationGiven =>
        /\ scoring.resp.statusCode = 400
        /\ scoring.resp.body.error = "missing-location"
        /\ scoring.trace = <<>>
        /\ "risk" \notin DOMAIN scoring.resp.body
        /\ risk_assessments = <<>>

C21_Witness ==
    /\ NoLocationGiven
    /\ scoring.event.lat = Num(31)
    /\ ~scoring.env.token
    /\ scoring.resp.statusCode = 400


\* A collaborator the route handler called did not answer: the connection is
\* missing, geocoding of a place name failed or the routing request failed.
RouteCollaboratorFailed ==
    /\ resp # NoResp
    /\ event.httpMethod = "GET"
    /\ event.origin # None /\ event.destination # None
    /\ \/ conn = None
       \/ ~upstream.hazards_ok
       \/ ~upstream.routes_ok
       \/ ~upstream.geocode_ok /\ event.destination = "KLCC"

\* The store failed the scoring handler: no connection, the town lookup
\* failed, or the insert it attempted failed.
ScoreStoreFailed ==
    /\ scoring.called
    /\ \E i \in 1..Len(scoring.trace) :
           \/ scoring.trace[i] = "db_conn" /\ ~scoring.env.db
           \/ scoring.trace[i] = "find_location" /\ scoring.env.find = "fails"
           \/ scoring.trace[i] = "insert" /\ ~scoring.env.insert_ok

\* C22: when the store or a provider fails, the handler that called it
\* answers with an error status, never 200, and calls no collaborator twice.
C22_CollaboratorFailureIsError ==
    /\ RouteCollaboratorFailed => resp.statusCode >= 400
    /\ ScoreStoreFailed => scoring.resp.statusCode >= 400
    /\ scoring.called =>
           \A i, j \in 1..Len(scoring.trace) :
               scoring.trace[i] = scoring.trace[j] => i = j


\* What invocation k answers when it runs alone in a container whose
\* connection is as the import left it, on its own inputs and on the table
\* as it stood when it ran
AloneResponse(k) ==
    LET v == invocations[k]
    IN  IF v.kind = "route"
        THEN RouteResponse(v.event, v.upstream, "open", v.table)
        ELSE ScoreHandlerResult(v.event, v.upstream, v.table).resp

\* C23: every invocation served by a container answers what it answers
\* alone on its own inputs and store contents, whatever the container served
\* before it.
C23_InvocationsIndependent ==
    \A k \in 1..Len(invocations) : invocations[k].resp = AloneResponse(k)


\* Level name of a score in tenths by the thresholds of the design
TableRiskLevel(score) ==
    IF score <= 30 THEN "Low"
    ELSE IF score <= 60 THEN "Moderate"
    ELSE IF score <= 80 THEN "High"
    ELSE "Critical"

\* C24: every row a scoring request wrote has final_score in [1,10] and the
\* risk_level that the thresholds give its own final_score.
C24_PersistedScoreClamped ==
    scoring.called =>
        \A i \in 1..Len(risk_assessments) :
            /\ risk_assessments[i].final_score >= 10
            /\ risk_assessments[i].final_score <= 100
            /\ risk_assessments[i].risk_level =
                   TableRiskLevel(risk_assessments[i].final_score)

\* A request with urgency 0 and no warning scores 0.0 and is stored as 1.0
C24_Witness ==
    /\ Persisted
    /\ scoring.resp.body.risk.final_score = 0
    /\ risk_assessments[1].final_score = 10
    /\ risk_assessments[1].risk_level = "Low"

\* The scoring request got as far as the warning fetch
Fetched ==
    /\ scoring.called
    /\ \E i \in 1..Len(scoring.trace) : scoring.trace[i] = "fetch_RAINS"

\* The request carries urgency that is a number or absent
NumericUrgency == scoring.event.nlp.t # "str"

\* The one urgency the request carries, 0 when it carries none, clamped
GivenUrgency ==
    LET u == IF scoring.event.nlp.t = "num" THEN scoring.event.nlp.v
             ELSE IF scoring.event.analysis.t = "num" THEN scoring.event.analysis.v
             ELSE 0
    IN  IF u < 0 THEN 0 ELSE IF u > 100 THEN 100 ELSE u

\* Half of a value in tenths, rounded to tenths, ties to even
HalfRounded(u) ==
    LET q == (5 * u) \div 10
        r == (5 * u) % 10
    IN  IF r < 5 THEN q ELSE IF r > 5 THEN q + 1 ELSE IF q % 2 = 0 THEN q ELSE q + 1

HasResults(a) == a.t = "list" /\ a.items # <<>>

C29_ReturnedScoreIsStoredScore ==
    Persisted =>
        scoring.resp.body.risk.final_score = risk_assessments[1].final_score

\* The request carries both urgency fields, as numbers within [0,10]
BothUrgencies ==
    /\ scoring.called
    /\ scoring.event.nlp.t = "num"
    /\ scoring.event.analysis.t = "num"

\* C30: a scoring request that carries both nlp.urgency_score and
\* analysis.urgency_score is scored on nlp.urgency_score, whatever its value.
C30_NlpUrgencyFirst ==
    (BothUrgencies /\ scoring.resp.statusCode = 200) =>
        /\ scoring.resp.body.nlp.urgency_score = scoring.event.nlp.v
        /\ scoring.resp.body.risk.final_score =
               Round1(5 * scoring.event.nlp.v
                      + 5 * 25 * scoring.resp.body.met.max_severity_level)


TableMinDist(enc, hs) ==
    LET ds == {Abs(Decode(enc)[i] - hs[j].lat) :
                   i \in 1..Len(Decode(enc)), j \in 1..Len(hs)}
    IN  CHOOSE d \in ds : \A e \in ds : d <= e

\* C27: with hazards present, the min_dist of a returned bestRoute is the
\* least distance over all pairs of a route point and a hazard, the route
\* passed the safety filter, and min_dist is at least the smallest radius_m
\* of the reported hazards.
C27_MinDistOfBestRoute ==
    (HasBest /\ Len(TableHazards) > 0) =>
        /\ resp.body.bestRoute.min_dist =
               TableMinDist(resp.body.bestRoute.polyline, TableHazards)
        /\ ~UnsafePath(resp.body.bestRoute.polyline, TableHazards)
        /\ \E j \in 1..Len(resp.body.hazards) :
               resp.body.bestRoute.min_dist >= resp.body.hazards[j].radius_m

\* The best route's second point is the nearer one
C27_Witness ==
    /\ HasBest
    /\ Len(TableHazards) = 1
    /\ resp.body.bestRoute.polyline = "pA"
    /\ resp.body.hazards[1].lat = 30000
    /\ resp.body.bestRoute.min_dist = 18000

\* C28: a route that is unsafe for a hazard list under a weather is unsafe
\* for every list that contains it under every weather whose factor is at
\* least as large.
C28_SafetyAntitone ==
    (/\ call.fn = "route_safety"
     /\ TableWeatherFactor(call.weather2) >= TableWeatherFactor(call.weather)
     /\ call.unsafe) => call.unsafe2

\* A point on the clear-weather radius is unsafe in rain and stays unsafe
\* under storm with one more hazard
C28_Witness ==
    /\ call.fn = "route_safety"
    /\ call.points = <<1500>>
    /\ call.hazards = <<[lat |-> 0, lng |-> 0, risk_level |-> "Low"]>>
    /\ Len(call.hazards2) = 2
    /\ call.hazards2[1].lat = 20000
    /\ call.weather = " rain " /\ call.weather2 = "Storm"
    /\ call.unsafe /\ call.unsafe2

====
